---- MODULE Spec2Model ----
(***************************************************************************)
(* The effect lifecycle controller of src/src/hooks/effects.ts: the global *)
(* frame clock (time, frame, animationFrame), the Effect instance          *)
(* (state, destroyables, ensureUnmounted, unmount), the pending set        *)
(* debounceUnmountPendingEffects, and the three closures of useEffects:    *)
(* the render body, the mount step and the unmount step, with the          *)
(* generator stepping of handleResult / nextResult.                        *)
(*                                                                         *)
(* The host (React) is the environment: it renders the component, runs the *)
(* mount step and the unmount closure at commit, disconnects and           *)
(* reconnects the effects of a mounted component (strict mode, hidden and  *)
(* shown subtrees), removes the component, resolves the promises of an     *)
(* async generator and fires requestAnimationFrame.                        *)
(***************************************************************************)
EXTENDS Integers, Sequences, FiniteSets, TLC

\* ---------------------------------------------------------------- bounds
\* Renders and disconnections of one component, together.
MaxOps == 3
\* Frames the clock advances.
MaxFrame == 2

\* The components under observation, one Effect instance each.
Insts == {"e1"}

VARIABLES
  time,          \* effects.ts:8   let time = 0
  frame,         \* effects.ts:9   let frame = 0
  pending,       \* effects.ts:11  debounceUnmountPendingEffects
  nextId,        \* effects.ts:40  Effect.nextId
  nextDepsId,    \* effects.ts:41  Effect.nextDepsId
  state,         \* effects.ts:43  Effect.state, per instance
  destroyables,  \* effects.ts:56  Effect.destroyables, per instance
  options,       \* effects.ts:186 { moment, useDigestProps, debounce } and the kind of callback
  host,          \* the hooks' own memory of the component (useMemo / useEffect slots)
  runs,          \* generators whose it.next() promise is not settled yet
  rng,           \* how many Math.random() values were drawn
  released,      \* per instance: the release actions invoked so far, in order
  acquired,      \* per instance: the resources appended to destroyables so far, in order
  calls,         \* per instance: how many times the callback was invoked
  fatal,         \* per instance: the unmount step threw 'Unexpected unmount!'
  held,          \* per instance: the callback was invoked since the last release
  lastLife,      \* per instance: its last lifecycle step (mount or unmount) and the outcome
  last,          \* the operation that led to this state: [op, out, inst]
  fed,           \* per instance: what it.next() was given, resumption after resumption,
                 \* since the callback was last invoked
  stopped,       \* the generators whose last result handleResult did not follow with
                 \* nextResult(): << instance, depsId, mountId >> of the mount step
  fetches,       \* useFetchAndParse: the callback bodies waiting on an await
  published,     \* useFetchAndParse, per instance: the urls whose content setData was given
  digest         \* a call of digestProps in progress: its heap, queue, Hash state, result

vars == <<time, frame, pending, nextId, nextDepsId, state, destroyables, options,
          host, runs, rng, released, acquired, calls, fatal, held,
          lastLife, last, fed, stopped, fetches, published, digest>>

\* ------------------------------------------------------------ UnmountReason
Regular == "Regular"
DebounceNextFrame == "DebounceNextFrame"

\* The value undefined.
Undefined ==
  [ undefined |-> TRUE ]

\* ------------------------------------------------------------------ Effect
\* new Effect(): the field initialisers of the class.
NewEffectState(id, t, f) ==
  [ id |-> id,
    mounted |-> FALSE,
    unmountReason |-> Regular,
    depsId |-> -1,
    mountId |-> 0,
    renderCount |-> 0,
    creationTime |-> t,
    creationFrame |-> f,
    lastUpdateTime |-> -1,
    lastUpdateFrame |-> -1 ]

\* The part of the store that Effect's methods read and write.
World ==
  [ state |-> state, destroyables |-> destroyables, pending |-> pending,
    released |-> released, acquired |-> acquired, runs |-> runs, fed |-> fed,
    stopped |-> stopped, fetches |-> fetches, published |-> published,
    calls |-> calls, fatal |-> fatal, held |-> held ]

\* for (const destroyable of this.destroyables): the order of the release calls.
ReleaseOrderReversed(ds) ==
  [ k \in 1..Len(ds) |-> ds[Len(ds) + 1 - k] ]

ReleaseOrder(ds) ==
  ds

\* The release actions run by one pass over the list: destroy() of a wrapper,
\* or the disposer itself; the log keeps the identity of the resource.
ReleaseCalls(ds) ==
  [ k \in 1..Len(ds) |-> ReleaseOrder(ds)[k].id ]

\* if (this.state.mounted === false) return
AlreadyUnmountedNever(w, i) ==
  FALSE

AlreadyUnmounted(w, i) ==
  w.state[i].mounted = FALSE

\* this.destroyables.length = 0
NotCleared(ds) ==
  ds

Cleared(ds) ==
  << >>

\* Effect.unmount(reason = UnmountReason.Regular)
unmount(w, i, reason) ==
  IF AlreadyUnmounted(w, i)
    THEN w
    ELSE [ w EXCEPT !.state[i].mounted = FALSE,
                    !.state[i].unmountReason = reason,
                    !.released[i] = @ \o ReleaseCalls(w.destroyables[i]),
                    !.destroyables[i] = Cleared(@),
                    !.pending = @ \ {i},
                    !.held[i] = FALSE ]

\* Effect.ensureUnmounted()
EnsureNothing(w, i) ==
  w

ensureUnmounted(w, i) ==
  IF w.state[i].mounted = FALSE
    THEN w
    ELSE unmount(w, i, Regular)

\* The reason animationFrame passes to unmount.
TickReasonRegular ==
  Regular

TickReason ==
  DebounceNextFrame

\* for (const effect of debounceUnmountPendingEffects) effect.unmount(DebounceNextFrame)
RECURSIVE UnmountEach(_, _)
UnmountEach(w, todo) ==
  IF todo = {}
    THEN w
    ELSE LET i == CHOOSE x \in todo : TRUE
         IN  UnmountEach(unmount(w, i, TickReason), todo \ {i})

UnmountNone(w, todo) ==
  w

UnmountAll(w, todo) ==
  UnmountEach(w, todo)

\* ------------------------------------------------------- generator stepping
\* What one resumption of a generator can yield: nothing, a disposer, a value
\* wrapper { value, destroy }, or a sequence (here a disposer then a wrapper).
YieldKinds == {"void", "fn", "obj", "arr"}

\* A resource: its shape and its identity, which is where it was created: by
\* the generator that the mount step numbered m of generation (depsId) g started,
\* at its resumption k, at position j of what that resumption yielded.
Resource(at, j, kind) ==
  [ id |-> << at.g, at.m, at.k, j >>, kind |-> kind, owner |-> at.g ]

\* The iterator result { value, done: false } of a resumption that yields y.
Yielded(y, at) ==
  CASE y = "void" -> [ shape |-> "void", items |-> << >>, done |-> FALSE ]
    [] y = "fn"   -> [ shape |-> "one", items |-> << Resource(at, 1, "fn") >>, done |-> FALSE ]
    [] y = "obj"  -> [ shape |-> "one", items |-> << Resource(at, 1, "obj") >>, done |-> FALSE ]
    [] y = "arr"  -> [ shape |-> "many",
                       items |-> << Resource(at, 1, "fn"), Resource(at, 2, "obj") >>,
                       done |-> FALSE ]

\* The iterator result { value: undefined, done: true }.
Completed ==
  [ shape |-> "void", items |-> << >>, done |-> TRUE ]

\* The payload a wrapper carries: opaque, one per wrapper.
ValueOf(d) ==
  [ payload |-> d.id ]

\* typeof destroyable === 'object' ? destroyable.value : undefined
extractDestroyableValue(d) ==
  IF d.kind = "obj" THEN ValueOf(d) ELSE Undefined

\* extractPreviousValue(), on the previousValue kept by handleResult; an array
\* is the record of its elements.
extractPreviousValueFirstOnly(prev) ==
  IF prev.shape = "void"
    THEN Undefined
    ELSE extractDestroyableValue(prev.items[1])

extractPreviousValue(prev) ==
  IF prev.shape = "void"
    THEN Undefined
    ELSE IF prev.shape = "many"
      THEN [ array |-> [ k \in 1..Len(prev.items) |->
                           extractDestroyableValue(prev.items[k]) ] ]
      ELSE extractDestroyableValue(prev.items[1])

\* instance.state.mounted && instance.state.mountId === mountId && done === false
GuardIgnoresMounted(w, i, mountId, result) ==
  w.state[i].mountId = mountId /\ result.done = FALSE

Guard(w, i, mountId, result) ==
  w.state[i].mounted /\ w.state[i].mountId = mountId /\ result.done = FALSE

\* instance.destroyables.push(...value) / push(value)
PushFront(ds, items) ==
  items \o ds

Push(ds, items) ==
  ds \o items

\* handleResult(result): the new store, and whether nextResult() is called.
handleResultResumesOnly(w, i, mountId, result) ==
  [ w |-> w, next |-> Guard(w, i, mountId, result) ]

handleResult(w, i, mountId, result) ==
  IF Guard(w, i, mountId, result)
    THEN [ w |-> [ w EXCEPT !.destroyables[i] = Push(@, result.items),
                            !.acquired[i] = @ \o result.items ],
           next |-> TRUE ]
    ELSE [ w |-> w, next |-> FALSE ]

\* nextResult() of a synchronous generator, to the end of the recursion: each
\* resumption creates its resources, then handleResult processes the result.
\* The value of previousValue before the first result: undefined.
NoValue ==
  [ shape |-> "void", items |-> << >> ]

\* previousValue = value
ValuePart(result) ==
  [ shape |-> result.shape, items |-> result.items ]

\* it.next(extractPreviousValue()): the resumption at is given the payload of
\* previousValue.
Resume(w, i, at, previousValue) ==
  [ w EXCEPT !.fed[i] = Append(@, [ at |-> at, arg |-> extractPreviousValue(previousValue) ]) ]

\* handleResult returns without calling nextResult(): nothing refers to the
\* generator any more.
Stop(w, i, at) ==
  [ w EXCEPT !.stopped = @ \cup { << i, at.g, at.m >> } ]

\* What is left of a generator's script after a resumption; a completed
\* generator stays completed.
Remaining(script) ==
  IF script = << >> THEN << >> ELSE Tail(script)

\* result.then(awaitedResult => handleResult(awaitedResult)) for the pending
\* resumption r of an asynchronous generator: h is what handleResult did.
SettleAlwaysResumes(h, r, result) ==
  LET r2 == [ r EXCEPT !.previousValue = ValuePart(result),
                       !.at.k = @ + 1,
                       !.rest = Remaining(@) ]
      w1 == IF h.next THEN h.w ELSE Stop(h.w, r.inst, r.at)
  IN  [ Resume(w1, r.inst, r2.at, r2.previousValue)
          EXCEPT !.runs = (@ \ {r}) \cup {r2} ]

Settle(h, r, result) ==
  LET r2 == [ r EXCEPT !.previousValue = ValuePart(result),
                       !.at.k = @ + 1,
                       !.rest = Remaining(@) ]
  IN  IF h.next
        THEN [ Resume(h.w, r.inst, r2.at, r2.previousValue)
                 EXCEPT !.runs = (@ \ {r}) \cup {r2} ]
        ELSE [ Stop(h.w, r.inst, r.at) EXCEPT !.runs = @ \ {r} ]

RECURSIVE DriveSync(_, _, _, _, _, _)
DriveSync(w, i, mountId, at, script, previousValue) ==
  LET w1 == Resume(w, i, at, previousValue)
      result == IF script = << >> THEN Completed ELSE Yielded(Head(script), at)
      h == handleResult(w1, i, mountId, result)
  IN  IF h.next
        THEN DriveSync(h.w, i, mountId, [ at EXCEPT !.k = @ + 1 ], Tail(script),
                       ValuePart(result))
        ELSE Stop(h.w, i, at)

\* -------------------------------------------------------------- digestProps
\* Objects a digested value can refer to.
MaxNodes == 2

\* JavaScript values: primitives carry a code (the number, the string, the name
\* of the function), an object is a reference into the heap.
Null == [ t |-> "null", v |-> 0 ]
Bool(b) == [ t |-> "boolean", v |-> IF b THEN 1 ELSE 0 ]
Num(n) == [ t |-> "number", v |-> n ]
Str(c) == [ t |-> "string", v |-> c ]
Fn(name) == [ t |-> "function", v |-> name ]
Ref(n) == [ t |-> "object", v |-> n ]

\* An object of the heap: a wrapper { value }, an object with a uuid or an id,
\* an array, or a plain object whose k-th key is KeyCode(k).
Node(kind, items) ==
  [ kind |-> kind, items |-> items ]

KeyCode(k) ==
  10 + k

\* Hash of some-utils-ts/hash, an external library: a running value, here
\* folded into HashMod values.
HashMod == 16

HashInit ==
  0

HashUpdate(h, x) ==
  (h * 31 + x) % HashMod

HashUpdateString(h, c) ==
  HashUpdate(h, c)

\* Hash.update(123456) for null and undefined, Hash.update(37842398 + (current ? 0 : 1))
NullSeed == 123456
BoolSeed == 37842398

\* current.length of the functions under observation
FnLength == 1

\* Hash.updateString(key) for every entry of a plain object, in order.
RECURSIVE HashKeys(_, _, _)
HashKeys(h, k, n) ==
  IF k > n THEN h ELSE HashKeys(HashUpdateString(h, KeyCode(k)), k + 1, n)

\* Hash.init(); const queue = [...propsArray]
StartDigest(propsArray, heap) ==
  [ heap |-> heap, queue |-> propsArray, hash |-> HashInit, done |-> FALSE ]

\* No call in progress.
NoDigest ==
  [ heap |-> << >>, queue |-> << >>, hash |-> HashInit, done |-> FALSE ]

\* case 'object': what is hashed and what is pushed on the queue.
DigestObject(st, rest, node) ==
  CASE node.kind = "wrapper" -> [ st EXCEPT !.queue = rest \o << node.items[1] >> ]
    [] node.kind = "uuid"    -> [ st EXCEPT !.queue = rest,
                                            !.hash = HashUpdateString(@, node.items[1].v) ]
    [] node.kind = "id"      -> [ st EXCEPT !.queue = rest,
                                            !.hash = HashUpdateString(@, node.items[1].v) ]
    [] node.kind = "array"   -> [ st EXCEPT !.queue = rest \o node.items ]
    [] node.kind = "object"  -> [ st EXCEPT !.queue = rest \o node.items,
                                            !.hash = HashKeys(@, 1, Len(node.items)) ]

\* One iteration of while (queue.length > 0): current = queue.shift(), then the
\* switch on typeof current.
DigestIteration(st) ==
  LET current == Head(st.queue)
      rest == Tail(st.queue)
  IN  CASE current.t = "null"     -> [ st EXCEPT !.queue = rest,
                                                 !.hash = HashUpdate(@, NullSeed) ]
        [] current.t = "boolean"  -> [ st EXCEPT !.queue = rest,
                                                 !.hash = HashUpdate(@, BoolSeed + (1 - current.v)) ]
        [] current.t = "function" -> [ st EXCEPT !.queue = rest,
                                                 !.hash = HashUpdate(HashUpdateString(@, current.v),
                                                                     FnLength) ]
        [] current.t = "string"   -> [ st EXCEPT !.queue = rest,
                                                 !.hash = HashUpdateString(@, current.v) ]
        [] current.t = "number"   -> [ st EXCEPT !.queue = rest,
                                                 !.hash = HashUpdate(@, current.v) ]
        [] current.t = "object"   -> DigestObject(st, rest, st.heap[current.v])

\* The loop run to its end: return Hash.getValue()
RECURSIVE DigestRun(_)
DigestRun(st) ==
  IF st.queue = << >> THEN st.hash ELSE DigestRun(DigestIteration(st))

\* digestProps(...propsArray)
digestProps(propsArray, heap) ==
  DigestRun(StartDigest(propsArray, heap))

\* ---------------------------------------------------------------- useEffects
\* deps: [digestProps(propsDeps)], [Math.random()], or propsDeps itself.

\* propsDeps is [ isArray, isAlways, list ]: a dependency list, the 'always'
\* sentinel, or undefined (neither).
AlwaysDeps ==
  [ isArray |-> FALSE, isAlways |-> TRUE, list |-> << >> ]

UndefinedDeps ==
  [ isArray |-> FALSE, isAlways |-> FALSE, list |-> << >> ]

ListDeps(list) ==
  [ isArray |-> TRUE, isAlways |-> FALSE, list |-> list ]

\* parseArgs(args): [options, callback, deps] is returned as it is; in
\* [callback, deps] a missing deps defaults to 'always'.
parseArgs(form, deps) ==
  IF form = "Args0"
    THEN deps
    ELSE IF deps = UndefinedDeps THEN AlwaysDeps ELSE deps

\* deps: the list handed to useMemo, whether Math.random() was called, and
\* whether there is a list at all (useMemo without one recomputes every time).
DepsAlwaysRandom(o, propsDeps, random) ==
  [ list |-> << [ random |-> random ] >>, drew |-> TRUE, defined |-> TRUE ]

DepsSameRandom(o, propsDeps, random) ==
  [ list |-> << [ random |-> 0 ] >>, drew |-> TRUE, defined |-> TRUE ]

Deps(o, propsDeps, random) ==
  IF o.useDigestProps /\ propsDeps.isArray /\ Len(propsDeps.list) > 0
    THEN [ list |-> << digestProps(<< Ref(1) >>, << Node("array", propsDeps.list) >>) >>,
           drew |-> FALSE, defined |-> TRUE ]
    ELSE IF propsDeps.isAlways
           THEN [ list |-> << [ random |-> random ] >>, drew |-> TRUE, defined |-> TRUE ]
           ELSE [ list |-> propsDeps.list, drew |-> FALSE, defined |-> propsDeps.isArray ]

\* debounce && instance.state.lastUpdateFrame === frame && instance.state.mountId > 1
ShortCircuitNever(o, s) ==
  FALSE

ShortCircuit(o, s) ==
  o.debounce /\ s.lastUpdateFrame = frame /\ s.mountId > 1

\* The mount step: the closure given to useEffect / useLayoutEffect / useMemo.
\* The callback returns nothing, a generator or an async generator; script is
\* what the generator yields, resumption after resumption, before it completes.
mountStep(w, i) ==
  LET o == options[i]
      s1 == [ w.state[i] EXCEPT !.mounted = TRUE,
                                !.mountId = @ + 1,
                                !.lastUpdateFrame = frame,
                                !.lastUpdateTime = time ]
      w1 == [ w EXCEPT !.state[i] = s1 ]
      mountId == s1.mountId
      w2 == [ w1 EXCEPT !.calls[i] = @ + 1, !.held[i] = TRUE, !.fed[i] = << >> ]
      first == [ g |-> s1.depsId, m |-> mountId, k |-> 1 ]
  IN  IF ShortCircuit(o, s1)
        THEN [ w1 EXCEPT !.pending = @ \ {i} ]
        ELSE CASE o.callback.kind = "none"  -> w2
               [] o.callback.kind = "sync"  ->
                    DriveSync(w2, i, mountId, first, o.callback.script, NoValue)
               [] o.callback.kind = "fetch" ->
                    [ Resume(w2, i, first, NoValue) EXCEPT !.fetches = @ \cup
                        { [ inst |-> i, at |-> first, url |-> host[i].props.list[1],
                            stage |-> "fetch" ] } ]
               [] o.callback.kind = "async" ->
                    [ Resume(w2, i, first, NoValue) EXCEPT !.runs = @ \cup
                        { [ inst |-> i, mountId |-> mountId, at |-> first,
                            previousValue |-> NoValue,
                            rest |-> o.callback.script ] } ]

\* debounce && instance.state.lastUpdateTime === time
SameFrameNever(o, s) ==
  FALSE

SameFrameIgnoresTime(o, s) ==
  o.debounce

SameFrameIgnoresDebounce(o, s) ==
  s.lastUpdateTime = time

SameFrame(o, s) ==
  o.debounce /\ s.lastUpdateTime = time

\* What the unmount closure does: defer, throw, or call instance.unmount().
UnmountOutcomeNoThrow(o, s) ==
  IF SameFrame(o, s) /\ s.mountId < 2 THEN "deferred" ELSE "unmount"

UnmountOutcomeDefersTwice(o, s) ==
  IF SameFrame(o, s) /\ s.mountId <= 2
    THEN "deferred"
    ELSE IF SameFrame(o, s) /\ s.mountId > 2 THEN "fatal" ELSE "unmount"

UnmountOutcome(o, s) ==
  IF SameFrame(o, s) /\ s.mountId < 2
    THEN "deferred"
    ELSE IF SameFrame(o, s) /\ s.mountId > 2 THEN "fatal" ELSE "unmount"

\* The unmount step: the cleanup returned by the second useEffect.
unmountStepThrowsLate(w, i) ==
  LET out == UnmountOutcome(options[i], w.state[i])
  IN  CASE out = "deferred" -> [ w EXCEPT !.pending = @ \cup {i} ]
        [] out = "fatal"    -> [ unmount(w, i, Regular) EXCEPT !.fatal[i] = TRUE ]
        [] out = "unmount"  -> unmount(w, i, Regular)

unmountStep(w, i) ==
  LET out == UnmountOutcome(options[i], w.state[i])
  IN  CASE out = "deferred" -> [ w EXCEPT !.pending = @ \cup {i} ]
        [] out = "fatal"    -> [ w EXCEPT !.fatal[i] = TRUE ]
        [] out = "unmount"  -> unmount(w, i, Regular)

\* if (depsId !== instance.state.depsId) { ensureUnmounted(); depsId = ...; mountId = 0 }
\* instance.state.renderCount++
renderBodyKeepsMountId(w, i, depsId) ==
  LET w1 == IF depsId # w.state[i].depsId
              THEN [ ensureUnmounted(w, i) EXCEPT !.state[i].depsId = depsId ]
              ELSE w
  IN  [ w1 EXCEPT !.state[i].renderCount = @ + 1 ]

renderBodyCountsGenerations(w, i, depsId) ==
  IF depsId # w.state[i].depsId
    THEN [ ensureUnmounted(w, i) EXCEPT !.state[i].depsId = depsId,
                                        !.state[i].mountId = 0,
                                        !.state[i].renderCount = @ + 1 ]
    ELSE w

renderBody(w, i, depsId) ==
  LET w1 == IF depsId # w.state[i].depsId
              THEN [ ensureUnmounted(w, i) EXCEPT !.state[i].depsId = depsId,
                                                  !.state[i].mountId = 0 ]
              ELSE w
  IN  [ w1 EXCEPT !.state[i].renderCount = @ + 1 ]

\* ------------------------------------------------------------------- host
\* The hook slots of a component before its first render (the slots are empty:
\* comp = "unborn" says so, the values are placeholders).
NewHost ==
  [ comp |-> "unborn", todo |-> << >>, memoDeps |-> << >>, memoDepsId |-> -1,
    effectDeps |-> -1, ops |-> 0, props |-> UndefinedDeps ]

\* use(() => { ... }, [depsId]): the host runs the closure again when the
\* dependency differs from that of the previous render, and at the first render.
RefireAlways(h, depsId) ==
  TRUE

Refire(h, depsId) ==
  h.comp = "unborn" \/ h.effectDeps # depsId

\* The dependency values a component can be rendered with.
PropValues == { Str(1), Str(2) }

\* What a render passes as deps: the sentinel, nothing at all, an empty list or
\* a list of one value.
GivenDeps(o) ==
  CASE o.propsDeps = "always"  -> { AlwaysDeps }
    [] o.propsDeps = "omitted" -> { UndefinedDeps }
    [] o.propsDeps = "empty"   -> { ListDeps(<< >>) }
    [] o.propsDeps = "list"    -> { ListDeps(<< v >>) : v \in PropValues }

\* const [options, callback, propsDeps] = parseArgs(args)
PropsChoices(o) ==
  { parseArgs(o.form, deps) : deps \in GivenDeps(o) }

\* The callbacks under observation: one that returns nothing, generators that
\* yield a disposer then a sequence, or a wrapper then nothing, and an async
\* generator that yields a sequence.
Callbacks ==
  { [ kind |-> "none", script |-> << >> ],
    [ kind |-> "sync", script |-> << "fn", "arr" >> ],
    [ kind |-> "sync", script |-> << "obj", "void" >> ],
    [ kind |-> "async", script |-> << "arr" >> ] }

\* The ways a component uses the hook. The async generator is observed under
\* the default moment with a dependency list, raw dependencies (useDigestProps
\* off) with a callback that returns nothing. A call without options
\* ([callback, deps]) runs with the default options, as the same call with
\* options that spell the defaults out: it is listed only where it differs,
\* when deps is omitted.
Configs ==
  { o \in [ form : {"Args0", "Args1"},
            moment : {"effect", "layoutEffect", "memo"},
            useDigestProps : BOOLEAN,
            debounce : BOOLEAN,
            propsDeps : {"always", "omitted", "empty", "list"},
            callback : Callbacks ] :
      /\ o.useDigestProps \/
           (o.propsDeps = "list" /\ o.callback.kind = "none" /\ o.moment = "effect")
      /\ o.callback.kind = "async" => (o.moment = "effect" /\ o.propsDeps = "list")
      /\ o.form = "Args1" => (o.propsDeps = "omitted" /\ o.debounce /\ o.useDigestProps)
      /\ o.propsDeps = "omitted" =>
           (o.moment = "effect" /\ o.callback = [ kind |-> "sync", script |-> << "fn", "arr" >> ]) }

Apply(w) ==
  /\ state' = w.state
  /\ destroyables' = w.destroyables
  /\ pending' = w.pending
  /\ released' = w.released
  /\ acquired' = w.acquired
  /\ runs' = w.runs
  /\ fed' = w.fed
  /\ stopped' = w.stopped
  /\ fetches' = w.fetches
  /\ published' = w.published
  /\ calls' = w.calls
  /\ fatal' = w.fatal
  /\ held' = w.held

\* The record kept in last; at is the generator a resolved promise belongs to.
NoRun ==
  [ g |-> -1, m |-> 0, k |-> 0 ]

DidAt(op, out, i, at) ==
  [ op |-> op, out |-> out, inst |-> i, at |-> at ]

Did(op, out, i) ==
  DidAt(op, out, i, NoRun)

\* The module as loaded, no component rendered yet.
Loaded ==
  /\ time = 0
  /\ frame = 0
  /\ pending = {}
  /\ nextId = 0
  /\ nextDepsId = 0
  /\ state = [ i \in Insts |-> NewEffectState(0, 0, 0) ]
  /\ destroyables = [ i \in Insts |-> << >> ]
  /\ host = [ i \in Insts |-> NewHost ]
  /\ runs = {}
  /\ rng = 0
  /\ released = [ i \in Insts |-> << >> ]
  /\ acquired = [ i \in Insts |-> << >> ]
  /\ calls = [ i \in Insts |-> 0 ]
  /\ fatal = [ i \in Insts |-> FALSE ]
  /\ held = [ i \in Insts |-> FALSE ]
  /\ fed = [ i \in Insts |-> << >> ]
  /\ stopped = {}
  /\ fetches = {}
  /\ published = [ i \in Insts |-> << >> ]
  /\ lastLife = [ i \in Insts |-> "none" ]
  /\ last = Did("init", "", CHOOSE i \in Insts : TRUE)

Init ==
  /\ Loaded
  /\ options \in [ Insts -> Configs ]
  /\ digest = NoDigest

\* One render of the component: the body of useEffects down to the scheduling of
\* the mount step; with moment 'memo' the mount step runs inside the render.
Render(i) ==
  /\ frame < MaxFrame
  /\ host[i].comp \in {"unborn", "live"}
  /\ host[i].todo = << >>
  /\ host[i].ops < MaxOps
  /\ \E propsDeps \in PropsChoices(options[i]) :
       LET o == options[i]
           h == host[i]
           drawn == Deps(o, propsDeps, rng)
           deps == drawn.list
           recompute == h.comp = "unborn" \/ ~drawn.defined \/ h.memoDeps # deps
           depsId == IF recompute THEN nextDepsId ELSE h.memoDepsId
           w0 == IF h.comp = "unborn"
                   THEN [ World EXCEPT !.state[i] = NewEffectState(nextId, time, frame) ]
                   ELSE World
           changed == depsId # w0.state[i].depsId
           w1 == renderBody(w0, i, depsId)
           refire == Refire(h, depsId)
           w2 == IF o.moment = "memo" /\ refire THEN mountStep(w1, i) ELSE w1
           cleanup == IF h.comp = "live" THEN << "unmount" >> ELSE << >>
           todo == IF ~refire
                     THEN << >>
                     ELSE CASE o.moment = "memo" -> cleanup
                            [] o.moment = "effect" -> cleanup \o << "mount" >>
                            [] o.moment = "layoutEffect" -> << "mount" >> \o cleanup
           mountOut == IF w2.calls[i] > w1.calls[i] THEN "invoked" ELSE "skipped"
       IN  /\ Apply(w2)
           /\ host' = [ host EXCEPT ![i] = [ h EXCEPT !.comp = "live", !.todo = todo,
                                                      !.memoDeps = deps,
                                                      !.memoDepsId = depsId,
                                                      !.effectDeps = depsId,
                                                      !.props = propsDeps,
                                                      !.ops = @ + 1 ] ]
           /\ nextId' = IF h.comp = "unborn" THEN nextId + 1 ELSE nextId
           /\ nextDepsId' = IF recompute THEN nextDepsId + 1 ELSE nextDepsId
           /\ rng' = IF drawn.drew THEN rng + 1 ELSE rng
           /\ lastLife' = IF o.moment = "memo" /\ refire
                             THEN [ lastLife EXCEPT ![i] = mountOut ]
                             ELSE lastLife
           /\ last' = Did("render", IF changed THEN "changed" ELSE "same", i)
  /\ UNCHANGED << time, frame, options, digest >>

\* The host runs the scheduled mount step.
MountStep(i) ==
  /\ frame < MaxFrame
  /\ host[i].todo # << >>
  /\ Head(host[i].todo) = "mount"
  /\ LET w == mountStep(World, i)
         out == IF w.calls[i] > calls[i] THEN "invoked" ELSE "skipped"
     IN  /\ Apply(w)
         /\ lastLife' = [ lastLife EXCEPT ![i] = out ]
         /\ last' = Did("mount", out, i)
  /\ host' = [ host EXCEPT ![i].todo = Tail(@) ]
  /\ UNCHANGED << time, frame, nextId, nextDepsId, options, rng, digest >>

\* The unmount closure, run by the host; todoAfter, compAfter and opsAfter are
\* the host's own state once the closure returned. When the closure throws,
\* the host tears the component down.
RunUnmount(i, todoAfter, compAfter, opsAfter) ==
  LET w == unmountStep(World, i)
      out == UnmountOutcome(options[i], state[i])
  IN  /\ frame < MaxFrame
      /\ Apply(w)
      /\ lastLife' = [ lastLife EXCEPT ![i] = out ]
      /\ last' = Did("unmount", out, i)
      /\ host' = [ host EXCEPT ![i] =
            IF out = "fatal"
              THEN [ @ EXCEPT !.comp = "gone", !.todo = << >> ]
              ELSE [ @ EXCEPT !.comp = compAfter, !.todo = todoAfter,
                              !.ops = opsAfter ] ]
      /\ UNCHANGED << time, frame, nextId, nextDepsId, options, rng, digest >>

\* The cleanup of the previous generation, run at the commit of a render that
\* changed depsId.
UnmountStep(i) ==
  /\ host[i].todo # << >>
  /\ Head(host[i].todo) = "unmount"
  /\ RunUnmount(i, Tail(host[i].todo), host[i].comp, host[i].ops)

\* The host disconnects the effects of a mounted component and will reconnect
\* them (strict mode's simulated unmount, a subtree hidden then shown): the
\* cleanup runs now, the mount step is scheduled again, except that a useMemo
\* is not run again.
Disconnect(i) ==
  /\ host[i].comp = "live"
  /\ host[i].todo = << >>
  /\ host[i].ops < MaxOps
  /\ RunUnmount(i, IF options[i].moment = "memo" THEN << >> ELSE << "mount" >>,
                "live", host[i].ops + 1)

\* The host removes the component: its last cleanup.
Remove(i) ==
  /\ host[i].comp = "live"
  /\ host[i].todo = << >>
  /\ RunUnmount(i, << >>, "gone", host[i].ops)

\* frame++
NextFrameSkips(f) ==
  f + 2

NextFrame(f) ==
  f + 1

\* requestAnimationFrame fires: animationFrame(ms).
animationFrame(ms) ==
  LET w == [ UnmountAll(World, pending) EXCEPT !.pending = {} ]
  IN  /\ time' = ms \div 1000
      /\ frame' = NextFrame(frame)
      /\ Apply(w)
      /\ last' = Did("tick", IF pending = {} THEN "idle" ELSE "flushed",
                     CHOOSE i \in Insts : TRUE)
      /\ UNCHANGED << nextId, nextDepsId, options, host, rng, lastLife, digest >>

\* The timestamp of the next frame: one second after the previous one, so that
\* ms / 1000 is exact.
TickTimes ==
  { 1000 * (time + 1) }

Tick ==
  /\ frame < MaxFrame
  /\ \E ms \in TickTimes : animationFrame(ms)

\* The promise of it.next() settles: result.then(handleResult).
Resolve(r) ==
  /\ r \in runs
  /\ LET result == IF r.rest = << >> THEN Completed ELSE Yielded(Head(r.rest), r.at)
         h == handleResult(World, r.inst, r.mountId, result)
         w2 == Settle(h, r, result)
     IN  /\ Apply(w2)
         /\ last' = DidAt("resolve",
               IF h.next THEN "processed" ELSE IF result.done THEN "done" ELSE "discarded",
               r.inst, r.at)
  /\ UNCHANGED << time, frame, nextId, nextDepsId, options, host, rng, lastLife, digest >>

Next ==
  \/ \E i \in Insts : Render(i)
  \/ \E i \in Insts : MountStep(i)
  \/ \E i \in Insts : UnmountStep(i)
  \/ \E i \in Insts : Disconnect(i)
  \/ \E i \in Insts : Remove(i)
  \/ Tick
  \/ \E r \in runs : Resolve(r)

Spec == Init /\ [][Next]_vars

\* requestAnimationFrame(animationFrame) is called again by every tick: the
\* clock keeps ticking.
FairSpec == Spec /\ WF_vars(Tick)

\* if (typeof window !== 'undefined') requestAnimationFrame(animationFrame):
\* without a window animationFrame is never called, time and frame stay 0.
StaticNext ==
  \/ \E i \in Insts : Render(i)
  \/ \E i \in Insts : MountStep(i)
  \/ \E i \in Insts : UnmountStep(i)
  \/ \E i \in Insts : Disconnect(i)
  \/ \E i \in Insts : Remove(i)
  \/ \E r \in runs : Resolve(r)

StaticSpec == Init /\ [][StaticNext]_vars

\* --------------------------------------------------------- useFetchAndParse
\* url.split('.').pop(): the urls a component is rendered with are a .json file
\* and a .yaml file.
ExtensionOf(url) ==
  CASE url.v = 1 -> "json"
    [] url.v = 2 -> "yaml"
    [] OTHER     -> "unknown"

\* state.mounted, read by the callback through instance.exposeState(): the
\* getters read the instance's state at the time of the read.
ExposedMounted(i) ==
  state[i].mounted

\* The async generator returns or throws: its it.next() promise settles with
\* done = true (or rejects), handleResult does not resume it.
FetchReturn(w, f) ==
  [ Stop(w, f.inst, f.at) EXCEPT !.fetches = @ \ {f} ]

\* setData(...) with the content fetched from f.url, then the return.
FetchPublish(w, f) ==
  [ FetchReturn(w, f) EXCEPT !.published[f.inst] = Append(@, f.url) ]

\* The body of the callback from one await to the next.
FetchBody(w, f) ==
  CASE f.stage = "fetch" ->
         [ w EXCEPT !.fetches = (@ \ {f}) \cup { [ f EXCEPT !.stage = "text" ] } ]
    [] f.stage = "text" ->
         IF ~ExposedMounted(f.inst)
           THEN FetchReturn(w, f)
           ELSE IF ~options[f.inst].callback.autoParse
             THEN FetchPublish(w, f)
             ELSE CASE ExtensionOf(f.url) = "json" -> FetchPublish(w, f)
                    [] ExtensionOf(f.url) = "yaml" ->
                         [ w EXCEPT !.fetches = (@ \ {f}) \cup { [ f EXCEPT !.stage = "import" ] } ]
                    [] OTHER -> FetchReturn(w, f)
    [] f.stage = "import" ->
         IF ~ExposedMounted(f.inst) THEN FetchReturn(w, f) ELSE FetchPublish(w, f)

\* An awaited promise of a callback body settles.
FetchStep(f) ==
  /\ f \in fetches
  /\ Apply(FetchBody(World, f))
  /\ last' = DidAt("fetch", f.stage, f.inst, f.at)
  /\ UNCHANGED << time, frame, nextId, nextDepsId, options, host, rng, lastLife, digest >>

\* useEffects(async function* (_, state) { ... }, [url]): the default options,
\* deps given as a list of one url.
FetchConfigs ==
  { [ form |-> "Args1", moment |-> "effect", useDigestProps |-> TRUE, debounce |-> TRUE,
      propsDeps |-> "list",
      callback |-> [ kind |-> "fetch", script |-> << >>, autoParse |-> autoParse ] ] :
      autoParse \in BOOLEAN }

FetchInit ==
  /\ Loaded
  /\ options \in [ Insts -> FetchConfigs ]
  /\ digest = NoDigest

FetchNext ==
  \/ \E i \in Insts : Render(i)
  \/ \E i \in Insts : MountStep(i)
  \/ \E i \in Insts : UnmountStep(i)
  \/ \E i \in Insts : Disconnect(i)
  \/ \E i \in Insts : Remove(i)
  \/ Tick
  \/ \E f \in fetches : FetchStep(f)

FetchSpec == FetchInit /\ [][FetchNext]_vars

\* ------------------------------------------------- digestProps, step by step
\* The values an object under digestion can hold, and the objects themselves:
\* wrappers, arrays and plain objects of one element, an object with a uuid, an
\* object with an id.
DigestValues ==
  { Null, Bool(TRUE), Num(1), Str(1), Fn(2) } \cup { Ref(n) : n \in 1..MaxNodes }

DigestNodes ==
  { Node(kind, << v >>) : kind \in {"wrapper", "array", "object"}, v \in DigestValues }
    \cup { Node("uuid", << Str(1) >>), Node("id", << Num(1) >>) }

\* digestProps(x) is called on the first object of some heap; the options are
\* the defaults and play no part.
DigestInit ==
  /\ Loaded
  /\ options = [ i \in Insts |->
        [ form |-> "Args0", moment |-> "effect", useDigestProps |-> TRUE,
          debounce |-> TRUE, propsDeps |-> "list",
          callback |-> [ kind |-> "none", script |-> << >> ] ] ]
  /\ digest \in { StartDigest(<< Ref(1) >>, heap) : heap \in [ 1..MaxNodes -> DigestNodes ] }

\* One iteration of the while loop.
DigestStep ==
  /\ ~digest.done
  /\ digest.queue # << >>
  /\ digest' = DigestIteration(digest)
  /\ UNCHANGED << time, frame, pending, nextId, nextDepsId, state, destroyables,
                  options, host, runs, rng, released, acquired, calls, fatal, held,
                  lastLife, last, fed, stopped, fetches, published >>

\* The loop ended: return Hash.getValue().
DigestReturn ==
  /\ ~digest.done
  /\ digest.heap # << >>
  /\ digest.queue = << >>
  /\ digest' = [ digest EXCEPT !.done = TRUE ]
  /\ UNCHANGED << time, frame, pending, nextId, nextDepsId, state, destroyables,
                  options, host, runs, rng, released, acquired, calls, fatal, held,
                  lastLife, last, fed, stopped, fetches, published >>

DigestNext ==
  \/ DigestStep
  \/ DigestReturn

\* The call runs on: a loop iteration that can run does run.
DigestSpec == DigestInit /\ [][DigestNext]_vars /\ WF_vars(DigestNext)

\* ------------------------------------------------------------------ claims
\* The identities of a list of resources.
Ids(ds) ==
  [ k \in 1..Len(ds) |-> ds[k].id ]

Range(f) ==
  { f[k] : k \in DOMAIN f }

\* C1. Exactly-once release: no release action is invoked twice, only resources
\* that were appended to destroyables are released, and once the instance is
\* released (mounted = false) every resource appended so far has been released;
\* further calls of unmount add nothing.
C1_ExactlyOnceRelease ==
  \A i \in Insts :
    /\ \A a, b \in 1..Len(released[i]) : released[i][a] = released[i][b] => a = b
    /\ Range(released[i]) \subseteq Range(Ids(acquired[i]))
    /\ ~state[i].mounted => Range(Ids(acquired[i])) \subseteq Range(released[i])

\* C1 witness: a generation was mounted with resources and released by the render
\* that changed depsId (mountId reset to 0); the cleanup then called unmount()
\* again on the released instance.
C1_Witness ==
  \E i \in Insts :
    /\ last = Did("unmount", "unmount", i)
    /\ state[i].mountId = 0
    /\ ~state[i].mounted
    /\ Len(released[i]) = 3

\* C2. Acquisition-order release: the release actions are invoked in the order
\* in which the resources were appended to destroyables (yield after yield, and
\* in the order of a yielded sequence).
C2_AcquisitionOrderRelease ==
  \A i \in Insts :
    /\ Len(released[i]) <= Len(acquired[i])
    /\ \A k \in 1..Len(released[i]) : released[i][k] = acquired[i][k].id

\* C2 witness: a generator yielded a disposer A, then the sequence (B, C), and the
\* instance was released: A, B, C in that order.
C2_Witness ==
  \E i \in Insts :
    /\ ~state[i].mounted
    /\ Len(released[i]) = 3
    /\ released[i] = << << 0, 1, 1, 1 >>, << 0, 1, 2, 1 >>, << 0, 1, 2, 2 >> >>

\* C3. Debounce collapse: with debounce, an unmount step that follows the first
\* mount step (mountId 1) in the frame of that mount releases nothing and defers;
\* the mount step that follows it in the same frame (mountId 2) invokes no
\* release action and no callback, leaves destroyables as it was, leaves
\* mounted = true and the instance outside the pending set.
C3_CollapseUnmount(i) ==
  ( /\ last'.op = "unmount" /\ last'.inst = i
    /\ options[i].debounce
    /\ lastLife[i] = "invoked"
    /\ state[i].mountId = 1
    /\ state[i].lastUpdateFrame = frame )
  => ( /\ released'[i] = released[i]
       /\ destroyables'[i] = destroyables[i]
       /\ calls'[i] = calls[i]
       /\ state'[i].mounted
       /\ lastLife'[i] = "deferred" )

C3_CollapseMount(i) ==
  ( /\ last'.op = "mount" /\ last'.inst = i
    /\ options[i].debounce
    /\ lastLife[i] = "deferred"
    /\ state[i].mountId = 1
    /\ state[i].lastUpdateFrame = frame )
  => ( /\ released'[i] = released[i]
       /\ destroyables'[i] = destroyables[i]
       /\ calls'[i] = calls[i]
       /\ state'[i].mounted
       /\ state'[i].mountId = 2
       /\ i \notin pending' )

C3_DebounceCollapse ==
  [][ \A i \in Insts : C3_CollapseUnmount(i) /\ C3_CollapseMount(i) ]_vars

\* C3 witness: the instance was created in this frame and its first generation is
\* at mountId 2 after a skipped mount: render, mount, unmount, mount in one frame,
\* with the resources of the first mount still held and nothing released.
C3_Witness ==
  \E i \in Insts :
    /\ last = Did("mount", "skipped", i)
    /\ options[i].debounce
    /\ state[i].creationFrame = frame
    /\ state[i].depsId = 0
    /\ state[i].mountId = 2
    /\ state[i].mounted
    /\ calls[i] = 1
    /\ Len(destroyables[i]) = 3
    /\ released[i] = << >>
    /\ i \notin pending

\* C4. Debounce flush: when the last lifecycle step of an instance is a deferred
\* unmount step (no mount step since), the next tick invokes the release action of
\* every resource of its destroyables, once and in order, none of them released
\* before, sets mounted = false and leaves the instance outside the pending set.
C4_Flush(i) ==
  ( /\ last'.op = "tick"
    /\ lastLife[i] = "deferred"
    /\ i \in pending )
  => ( /\ released'[i] = released[i] \o Ids(destroyables[i])
       /\ Range(Ids(destroyables[i])) \cap Range(released[i]) = {}
       /\ destroyables'[i] = << >>
       /\ ~state'[i].mounted
       /\ i \notin pending' )

C4_DebounceFlush ==
  [][ \A i \in Insts : C4_Flush(i) ]_vars

\* C4 witness: a tick flushed an instance whose unmount was deferred: it holds
\* nothing any more and its three resources were released with the reason
\* DebounceNextFrame.
C4_Witness ==
  \E i \in Insts :
    /\ last.op = "tick" /\ last.out = "flushed"
    /\ lastLife[i] = "deferred"
    /\ ~state[i].mounted
    /\ state[i].unmountReason = DebounceNextFrame
    /\ Len(released[i]) = 3
    /\ destroyables[i] = << >>

\* Every resource appended so far was released and nothing is held.
CleanedUp(i) ==
  /\ ~state[i].mounted
  /\ destroyables[i] = << >>
  /\ Range(Ids(acquired[i])) \subseteq Range(released[i])

\* C5. Genuine unmounts are always cleaned up: when the last lifecycle step of an
\* instance is an unmount step that did not throw, deferred or not, then under
\* fair ticks the instance is eventually released with destroyables empty and
\* every resource released, unless a mount step follows.
C5_GenuineUnmountCleanedUp ==
  \A i \in Insts :
    (lastLife[i] \in {"deferred", "unmount"})
      ~> (CleanedUp(i) \/ lastLife[i] \notin {"deferred", "unmount"})

\* C5 witness: the component was removed in the frame of its mount, the unmount
\* was deferred, and the tick released its resources.
C5_Witness ==
  \E i \in Insts :
    /\ host[i].comp = "gone"
    /\ lastLife[i] = "deferred"
    /\ state[i].unmountReason = DebounceNextFrame
    /\ CleanedUp(i)
    /\ Len(released[i]) = 3

\* C6. Async ordering: a result that arrives after the instance was released is
\* not appended: from a release until the callback is invoked again, destroyables
\* is empty, and it is empty whenever mounted = false.
C6_AsyncOrdering ==
  \A i \in Insts :
    (~held[i] \/ ~state[i].mounted) => destroyables[i] = << >>

\* C6 witness: the promise of a generator settled with a yielded value after the
\* release of the instance, and the value was discarded.
C6_Witness ==
  \E i \in Insts :
    /\ last.op = "resolve" /\ last.out = "discarded" /\ last.inst = i
    /\ ~state[i].mounted
    /\ last.at.g = state[i].depsId
    /\ last.at.m = state[i].mountId
    /\ destroyables[i] = << >>

\* C7. Stale resumption after regeneration is dropped: destroyables never holds
\* a resource yielded by the generator of an earlier generation (depsId).
C7_StaleResumptionDropped ==
  \A i \in Insts :
    \A k \in 1..Len(destroyables[i]) : destroyables[i][k].owner = state[i].depsId

\* C8. Collapse is a no-op for the running generator: with debounce, when the
\* generator started by the first mount of the current generation yields after
\* the collapsed unmount + remount (mountId 2, nothing released since the
\* callback), its result is processed, not discarded.
C8_CollapseKeepsGenerator ==
  \A i \in Insts :
    ~ ( /\ last.op = "resolve" /\ last.out = "discarded" /\ last.inst = i
        /\ options[i].debounce
        /\ last.at.g = state[i].depsId
        /\ last.at.m = 1
        /\ state[i].mountId = 2
        /\ state[i].mounted
        /\ held[i] )

\* C9. Fatal guard: with debounce, an unmount step that runs with mountId > 2
\* while lastUpdateTime equals the clock time throws: it neither defers nor
\* releases.
C9_Fatal(i) ==
  ( /\ last'.op = "unmount" /\ last'.inst = i
    /\ options[i].debounce
    /\ state[i].mountId > 2
    /\ state[i].lastUpdateTime = time )
  => ( /\ last'.out = "fatal"
       /\ fatal'[i]
       /\ pending' = pending
       /\ released'[i] = released[i]
       /\ state'[i] = state[i]
       /\ destroyables'[i] = destroyables[i] )

C9_FatalGuard ==
  [][ \A i \in Insts : C9_Fatal(i) ]_vars

\* C9 witness: the third unmount step of the first generation, in the frame the
\* instance was created in, threw.
C9_Witness ==
  \E i \in Insts :
    /\ last = Did("unmount", "fatal", i)
    /\ fatal[i]
    /\ options[i].debounce
    /\ state[i].creationFrame = frame
    /\ state[i].depsId = 0
    /\ state[i].mountId = 3

\* C10. Fingerprint stability, empty dependencies: with an explicit empty
\* dependency sequence, a render after the first one keeps depsId, releases
\* nothing, invokes no callback and schedules no mount or unmount step.
C10_Stable(i) ==
  ( /\ last'.op = "render" /\ last'.inst = i
    /\ options[i].propsDeps = "empty"
    /\ host[i].comp = "live" )
  => ( /\ state'[i].depsId = state[i].depsId
       /\ state'[i].mountId = state[i].mountId
       /\ state'[i].mounted = state[i].mounted
       /\ released'[i] = released[i]
       /\ destroyables'[i] = destroyables[i]
       /\ calls'[i] = calls[i]
       /\ host'[i].todo = << >> )

C10_EmptyDepsStable ==
  [][ \A i \in Insts : C10_Stable(i) ]_vars

\* C10 witness: the third render of a mounted component with empty dependencies:
\* still the first generation, the callback invoked once, the resources held.
C10_Witness ==
  \E i \in Insts :
    /\ last = Did("render", "same", i)
    /\ options[i].propsDeps = "empty"
    /\ state[i].renderCount = 3
    /\ state[i].depsId = 0
    /\ state[i].mounted
    /\ calls[i] = 1
    /\ Len(destroyables[i]) = 3
    /\ released[i] = << >>

\* The instance is used with the 'always' sentinel, or with no deps at all.
EveryRender(i) ==
  options[i].propsDeps \in {"always", "omitted"}

\* C11. Fingerprint change with the 'always' sentinel (also what a call without
\* deps gets): every render computes a depsId different from the stored one,
\* releases the current resources and resets mountId to 0 (with moment 'memo' the
\* mount step runs in that render: mountId 1, callback invoked); the mount step
\* that follows the render invokes the callback.
C11_Render(i) ==
  ( /\ last'.op = "render" /\ last'.inst = i
    /\ EveryRender(i) )
  => ( /\ last'.out = "changed"
       /\ state'[i].depsId # state[i].depsId
       /\ released'[i] = released[i] \o Ids(destroyables[i])
       /\ IF options[i].moment = "memo"
            THEN /\ state'[i].mountId = 1
                 /\ state'[i].mounted
                 /\ calls'[i] = calls[i] + 1
            ELSE /\ state'[i].mountId = 0
                 /\ ~state'[i].mounted
                 /\ destroyables'[i] = << >>
                 /\ i \notin pending'
                 /\ "mount" \in Range(host'[i].todo) )

C11_Mount(i) ==
  ( /\ last'.op = "mount" /\ last'.inst = i
    /\ EveryRender(i)
    /\ state[i].mountId = 0 )
  => ( /\ last'.out = "invoked"
       /\ calls'[i] = calls[i] + 1 )

C11_AlwaysRestarts ==
  [][ \A i \in Insts : C11_Render(i) /\ C11_Mount(i) ]_vars

\* C11 witness: a component that passes no deps ([callback] alone, resolved to
\* 'always') was rendered a third time: the two generations mounted before were
\* released, three resources each.
C11_Witness ==
  \E i \in Insts :
    /\ last = Did("render", "changed", i)
    /\ options[i].form = "Args1"
    /\ options[i].propsDeps = "omitted"
    /\ state[i].renderCount = 3
    /\ state[i].depsId = 2
    /\ state[i].mountId = 0
    /\ calls[i] = 2
    /\ Len(released[i]) = 6

\* C12. No tick means no debounce: where animationFrame never runs, an unmount
\* step does what it does with debounce disabled, whatever the option is: it
\* releases the resources of a mounted instance at once, never defers and never
\* throws.
C12_UnmountNow(i) ==
  ( /\ last'.op = "unmount" /\ last'.inst = i
    /\ state[i].mounted )
  => ( /\ last'.out = "unmount"
       /\ ~state'[i].mounted
       /\ released'[i] = released[i] \o Ids(destroyables[i])
       /\ destroyables'[i] = << >>
       /\ pending' = {} )

C12_NoTickNoDebounce ==
  [][ \A i \in Insts : C12_UnmountNow(i) ]_vars

\* C13. Generation change on render: a render that computes a depsId different
\* from the stored one releases the instance if it was mounted (every resource
\* of destroyables released, the instance out of the pending set even if an
\* unmount was deferred), stores the new depsId and resets mountId to 0; with
\* moment 'memo' the mount step of the new generation follows in the same render
\* (mountId 1, only resources of the new generation held).
C13_Regenerated(i) ==
  ( /\ last'.op = "render" /\ last'.inst = i
    /\ last'.out = "changed" )
  => ( /\ state'[i].depsId = host'[i].memoDepsId
       /\ state'[i].depsId # state[i].depsId
       /\ ( host[i].comp = "live" /\ state[i].mounted ) =>
            ( /\ released'[i] = released[i] \o Ids(destroyables[i])
              /\ i \notin pending' )
       /\ IF options[i].moment = "memo"
            THEN /\ state'[i].mountId = 1
                 /\ \A k \in 1..Len(destroyables'[i]) :
                      destroyables'[i][k].owner = state'[i].depsId
            ELSE /\ state'[i].mountId = 0
                 /\ ~state'[i].mounted
                 /\ destroyables'[i] = << >> )

C13_GenerationChange ==
  [][ \A i \in Insts : C13_Regenerated(i) ]_vars

\* C13 witness: with moment 'memo' and debounce, the component was rendered,
\* disconnected in the same frame (unmount deferred, instance pending) and
\* rendered with other deps before any tick: the first generation was released
\* by the render, the second one holds its own three resources.
C13_Witness ==
  \E i \in Insts :
    /\ last = Did("render", "changed", i)
    /\ options[i].moment = "memo" /\ options[i].debounce
    /\ frame = 0
    /\ host[i].ops = 3
    /\ state[i].renderCount = 2
    /\ state[i].unmountReason = Regular
    /\ i \notin pending
    /\ Len(released[i]) = 3
    /\ Len(destroyables[i]) = 3

\* C14. destroyables is non-empty only while mounted = true, and a release
\* drains it: a step that invokes release actions leaves in destroyables none of
\* the resources it held before, and leaves it empty unless the callback was
\* invoked again in the same step (the mount step of a render, moment 'memo').
C14_Drained(i) ==
  ( Len(released'[i]) > Len(released[i]) )
  => ( /\ Range(Ids(destroyables'[i])) \cap Range(Ids(destroyables[i])) = {}
       /\ destroyables'[i] = << >> \/ calls'[i] > calls[i] )

C14_DestroyablesOnlyWhileMounted ==
  /\ [] ( \A i \in Insts : destroyables[i] # << >> => state[i].mounted )
  /\ [][ \A i \in Insts : C14_Drained(i) ]_vars

\* C14 witness: the unmount step of a mounted generation (mountId 1) called
\* unmount(): three release actions ran and destroyables is empty.
C14_Witness ==
  \E i \in Insts :
    /\ last = Did("unmount", "unmount", i)
    /\ state[i].mountId = 1
    /\ ~state[i].mounted
    /\ destroyables[i] = << >>
    /\ Len(released[i]) = 3

\* C15. Tick: animationFrame(ms) sets time to ms / 1000, increases frame by
\* exactly 1, releases every mounted instance of the pending set with the reason
\* DebounceNextFrame, touches no other instance and leaves the pending set
\* empty, so that no instance is pending across two ticks.
C15_Released(i) ==
  IF i \in pending /\ state[i].mounted
    THEN /\ ~state'[i].mounted
         /\ state'[i].unmountReason = DebounceNextFrame
         /\ released'[i] = released[i] \o Ids(destroyables[i])
         /\ destroyables'[i] = << >>
    ELSE /\ state'[i] = state[i]
         /\ released'[i] = released[i]
         /\ destroyables'[i] = destroyables[i]

C15_Tick ==
  [][ \A ms \in TickTimes :
        animationFrame(ms) =>
          ( /\ 1000 * time' = ms
            /\ frame' = frame + 1
            /\ pending' = {}
            /\ \A i \in Insts : C15_Released(i) ) ]_vars

\* C15 witness: the second tick (time 2, frame 2) released an instance that was
\* mounted in frame 1 and whose unmount was deferred in that frame.
C15_Witness ==
  \E i \in Insts :
    /\ last.op = "tick" /\ last.out = "flushed"
    /\ frame = 2 /\ time = 2
    /\ pending = {}
    /\ state[i].lastUpdateFrame = 1
    /\ ~state[i].mounted
    /\ state[i].unmountReason = DebounceNextFrame
    /\ Len(released[i]) >= 3

\* C16. Resources created at the 'memo' moment survive the simulated unmount:
\* with debounce and moment 'memo', when the unmount step ran in the frame of
\* the mount step (deferred) and no mount step ran since, then as long as the
\* component stays mounted neither that unmount step nor the next tick releases
\* anything: the instance stays mounted with its resources.
C16_Survives(i) ==
  ( /\ options[i].moment = "memo" /\ options[i].debounce
    /\ host[i].comp = "live" /\ host'[i].comp = "live"
    /\ destroyables[i] # << >>
    /\ last'.op \in {"unmount", "tick"}
    /\ lastLife'[i] = "deferred" )
  => ( /\ released'[i] = released[i]
       /\ destroyables'[i] = destroyables[i]
       /\ state'[i].mounted )

C16_MemoSurvivesSimulatedUnmount ==
  [][ \A i \in Insts : C16_Survives(i) ]_vars

\* C17. digestProps terminates and returns a number for every input, object
\* graphs with cycles (through a wrapped value, an array element or a plain
\* property) included.
C17_DigestTerminates ==
  <> ( digest.done /\ digest.hash \in 0..(HashMod - 1) )

\* C18. Short-circuit only on a same-frame remount: with debounce, a mount step
\* skips the callback only if mountId > 1 and the previous mount step of the
\* instance ran in the current frame; a mount step that makes mountId > 1 in a
\* later frame than the previous mount step invokes the callback.
C18_LaterFrameInvokes(i) ==
  ( /\ last'.op = "mount" /\ last'.inst = i
    /\ options[i].debounce
    /\ state[i].mountId >= 1
    /\ state[i].lastUpdateFrame # frame )
  => ( /\ last'.out = "invoked"
       /\ calls'[i] = calls[i] + 1 )

C18_SkipOnlyInFrame(i) ==
  ( /\ last'.op = "mount" /\ last'.inst = i
    /\ last'.out = "skipped" )
  => ( /\ options[i].debounce
       /\ state'[i].mountId > 1
       /\ state[i].lastUpdateFrame = frame )

C18_ShortCircuitOnlySameFrame ==
  [][ \A i \in Insts : C18_LaterFrameInvokes(i) /\ C18_SkipOnlyInFrame(i) ]_vars

\* C19. Deferred unmount: with debounce, an unmount step that runs while
\* lastUpdateTime equals the clock time and mountId < 2 adds the instance to the
\* pending set and changes nothing else: no release action, and the state of the
\* instance (mounted, mountId, depsId, unmountReason) and destroyables unchanged.
C19_Deferred(i) ==
  ( /\ last'.op = "unmount" /\ last'.inst = i
    /\ options[i].debounce
    /\ state[i].lastUpdateTime = time
    /\ state[i].mountId < 2 )
  => ( /\ last'.out = "deferred"
       /\ pending' = pending \cup {i}
       /\ state' = state
       /\ destroyables' = destroyables
       /\ released' = released
       /\ calls' = calls
       /\ fatal' = fatal )

C19_DeferredUnmount ==
  [][ \A i \in Insts : C19_Deferred(i) ]_vars

\* C19 witness: the unmount step of a mounted instance that holds three
\* resources was deferred: nothing released, the instance is pending.
C19_Witness ==
  \E i \in Insts :
    /\ last = Did("unmount", "deferred", i)
    /\ i \in pending
    /\ state[i].mounted
    /\ state[i].mountId = 1
    /\ Len(destroyables[i]) = 3
    /\ released[i] = << >>

\* C20. An unmount step that runs while lastUpdateTime differs from the clock
\* time (a frame later than the last mount step) is never deferred: it releases
\* every resource at once, whatever mountId is, with or without debounce.
C20_Immediate(i) ==
  ( /\ last'.op = "unmount" /\ last'.inst = i
    /\ state[i].lastUpdateTime # time )
  => ( /\ last'.out = "unmount"
       /\ ~state'[i].mounted
       /\ released'[i] = released[i] \o Ids(destroyables[i])
       /\ destroyables'[i] = << >>
       /\ i \notin pending' )

C20_LaterFrameUnmount ==
  [][ \A i \in Insts : C20_Immediate(i) ]_vars

\* C20 witness: with debounce, an instance mounted in frame 0 is unmounted in
\* frame 1: its three resources are released by the unmount step itself.
C20_Witness ==
  \E i \in Insts :
    /\ last = Did("unmount", "unmount", i)
    /\ options[i].debounce
    /\ state[i].lastUpdateFrame = 0 /\ frame = 1
    /\ state[i].unmountReason = Regular
    /\ ~state[i].mounted
    /\ Len(released[i]) = 3

\* C21. Only the first same-frame unmount of a generation is deferred: with
\* debounce, an unmount step that runs while lastUpdateTime equals the clock time
\* with mountId exactly 2 releases the resources at once: it neither defers nor
\* throws.
C21_Second(i) ==
  ( /\ last'.op = "unmount" /\ last'.inst = i
    /\ options[i].debounce
    /\ state[i].lastUpdateTime = time
    /\ state[i].mountId = 2 )
  => ( /\ last'.out = "unmount"
       /\ ~fatal'[i]
       /\ ~state'[i].mounted
       /\ released'[i] = released[i] \o Ids(destroyables[i])
       /\ destroyables'[i] = << >>
       /\ i \notin pending' )

C21_SecondUnmountReleases ==
  [][ \A i \in Insts : C21_Second(i) ]_vars

\* C21 witness: in frame 0, after mount, deferred unmount and collapsed remount
\* (mountId 2), a second unmount step released the three resources.
C21_Witness ==
  \E i \in Insts :
    /\ last = Did("unmount", "unmount", i)
    /\ options[i].debounce
    /\ frame = 0
    /\ state[i].mountId = 2
    /\ state[i].lastUpdateTime = time
    /\ ~state[i].mounted
    /\ state[i].unmountReason = Regular
    /\ Len(released[i]) = 3

\* The payload of what a generator step yielded, as the specification gives it:
\* nothing for nothing or a bare disposer, the wrapper's value for a wrapper,
\* and for a sequence the payloads of its elements in order.
PayloadOf(y, at) ==
  CASE y = "void" -> [ undefined |-> TRUE ]
    [] y = "fn"   -> [ undefined |-> TRUE ]
    [] y = "obj"  -> [ payload |-> << at.g, at.m, at.k, 1 >> ]
    [] y = "arr"  -> [ array |-> << [ undefined |-> TRUE ],
                                    [ payload |-> << at.g, at.m, at.k, 2 >> ] >> ]

\* C22: payload threading. The first resumption of a generator is given
\* undefined; resumption k + 1 is given the payload of what resumption k
\* yielded.
C22_PayloadThreading ==
  \A i \in Insts : \A n \in 1..Len(fed[i]) :
    LET e == fed[i][n]
        script == options[i].callback.script
    IN  IF e.at.k = 1
          THEN e.arg = [ undefined |-> TRUE ]
          ELSE /\ e.at.k - 1 <= Len(script)
               /\ e.arg = PayloadOf(script[e.at.k - 1], [ e.at EXCEPT !.k = @ - 1 ])

C22_Witness ==
  \E i \in Insts :
    /\ Len(fed[i]) = 3
    /\ fed[i][1].arg = [ undefined |-> TRUE ]
    /\ fed[i][2].arg = [ undefined |-> TRUE ]
    /\ fed[i][3].arg = [ array |-> << [ undefined |-> TRUE ],
                                      [ payload |-> << fed[i][3].at.g, fed[i][3].at.m, 2, 2 >> ] >> ]

C22_WitnessWrapper ==
  \E i \in Insts :
    /\ Len(fed[i]) = 3
    /\ fed[i][2].arg = [ payload |-> << fed[i][2].at.g, fed[i][2].at.m, 1, 1 >> ]
    /\ fed[i][3].arg = [ undefined |-> TRUE ]

\* How many mount steps the host has scheduled.
Mounts(todo) ==
  Cardinality({ n \in 1..Len(todo) : todo[n] = "mount" })

\* C23: a render whose generation id equals the stored depsId schedules no
\* mount step and invokes no callback; a render with a new generation id
\* schedules the mount step once (useMemo runs it once, inside the render).
C23_Render(i) ==
  (last'.op = "render" /\ last'.inst = i)
    => IF state'[i].depsId = state[i].depsId
         THEN /\ host'[i].todo = << >>
              /\ calls'[i] = calls[i]
              /\ state'[i].mountId = state[i].mountId
              /\ fed'[i] = fed[i]
         ELSE IF options[i].moment = "memo"
           THEN host'[i].todo \in { << >>, << "unmount" >> } /\ state'[i].mountId = 1
           ELSE Mounts(host'[i].todo) = 1 /\ state'[i].mountId = 0

C23_RendersDoNotRefire == [][ \A i \in Insts : C23_Render(i) ]_vars

C23_Witness ==
  \E i \in Insts :
    /\ last = Did("render", "same", i)
    /\ state[i].renderCount = 2 /\ state[i].mounted /\ state[i].mountId = 1
    /\ calls[i] = 1 /\ host[i].todo = << >>

\* The resources that resumption k of the generator at yielded.
StepItems(i, at, k) ==
  LET script == options[i].callback.script
  IN  IF k <= Len(script) THEN Yielded(script[k], [ at EXCEPT !.k = k ]).items ELSE << >>

\* The result of every resumption of the generator at before resumption k was
\* processed: its resources were appended to destroyables.
Processed(i, at) ==
  \A k \in 1..(at.k - 1) :
    \A j \in 1..Len(StepItems(i, at, k)) :
      StepItems(i, at, k)[j] \in Range(acquired[i])

\* C24: sequential stepping. A generator has at most one resumption waiting for
\* its result, and a resumption takes place only after the results of the
\* earlier ones were processed.
C24_SequentialStepping ==
  /\ \A r1, r2 \in runs :
       (r1.inst = r2.inst /\ r1.at.g = r2.at.g /\ r1.at.m = r2.at.m) => r1.at.k = r2.at.k
  /\ \A r \in runs : Processed(r.inst, r.at)
  /\ \A i \in Insts : \A n \in 1..Len(fed[i]) :
       /\ Processed(i, fed[i][n].at)
       /\ \A p \in 1..(n - 1) :
            (fed[i][p].at.g = fed[i][n].at.g /\ fed[i][p].at.m = fed[i][n].at.m)
              => fed[i][p].at.k < fed[i][n].at.k

C24_Witness ==
  \E r \in runs :
    /\ r.at.k = 2
    /\ Len(acquired[r.inst]) >= 2
    /\ Len(fed[r.inst]) = 2
    /\ last = DidAt("resolve", "processed", r.inst, [ r.at EXCEPT !.k = 1 ])

\* The resumptions that a step adds to the log of instance i.
Resumed(i) ==
  IF Len(fed'[i]) >= Len(fed[i]) /\ SubSeq(fed'[i], 1, Len(fed[i])) = fed[i]
    THEN { fed'[i][n] : n \in (Len(fed[i]) + 1)..Len(fed'[i]) }
    ELSE Range(fed'[i])

\* C25: stepping stops for good. Once handleResult discarded a result of a
\* generator or the generator completed, no step resumes that generator and
\* no resumption of it is pending.
C25_Step ==
  /\ \A i \in Insts : \A e \in Resumed(i) : << i, e.at.g, e.at.m >> \notin stopped
  /\ \A r \in runs' : << r.inst, r.at.g, r.at.m >> \notin stopped'
  /\ stopped \subseteq stopped'

C25_SteppingStopsForGood == [][ C25_Step ]_vars

C25_Witness ==
  \E i \in Insts : \E g \in 0..MaxOps :
    /\ << i, g, 1 >> \in stopped
    /\ options[i].callback.kind = "async"
    /\ state[i].mounted /\ state[i].depsId > g
    /\ last.op = "resolve" /\ last.out = "processed" /\ last.at.g > g

\* C26: generations do not overlap. When a mount step invokes the callback for
\* a generation (mountId from 0 to 1), the instance was not mounted and
\* destroyables was empty just before it. With useMemo the mount step runs
\* inside the render, after the render released the previous generation: every
\* resource held before the render was released by it.
C26_Mount(i) ==
  (calls'[i] = calls[i] + 1 /\ state'[i].mountId = 1)
    => /\ \A d \in Range(destroyables'[i]) : d.owner = state'[i].depsId
       /\ IF last'.op = "mount"
            THEN ~state[i].mounted /\ destroyables[i] = << >> /\ state[i].mountId = 0
            ELSE /\ last'.op = "render" /\ options[i].moment = "memo"
                 /\ \A d \in Range(destroyables[i]) : d.id \in Range(released'[i])

C26_GenerationsDoNotOverlap == [][ \A i \in Insts : C26_Mount(i) ]_vars

C26_Witness ==
  \E i \in Insts :
    /\ last = Did("mount", "invoked", i)
    /\ state[i].mountId = 1 /\ state[i].depsId >= 1
    /\ released[i] # << >>
    /\ destroyables[i] # << >>

\* A step in which unmount() is called on instance i: an unmount step that
\* reaches instance.unmount(), or a tick while i is in the pending set.
UnmountCalled(i) ==
  \/ last'.op = "unmount" /\ last'.inst = i /\ last'.out = "unmount"
  \/ last'.op = "tick" /\ i \in pending

\* C27: guarded no-op. On an instance with mounted = false, unmount() and
\* ensureUnmounted() raise no error and change nothing: no release action
\* runs, and unmountReason, destroyables, mountId, depsId and the pending set
\* are as before.
C27_NoOp(i) ==
  ~state[i].mounted
    => /\ \A reason \in { Regular, DebounceNextFrame } : unmount(World, i, reason) = World
       /\ ensureUnmounted(World, i) = World
       /\ UnmountCalled(i)
            => /\ released'[i] = released[i]
               /\ state'[i] = state[i]
               /\ destroyables'[i] = destroyables[i]
               /\ ~fatal'[i]
               /\ last'.op = "unmount" => pending' = pending

C27_GuardedNoOp == [][ \A i \in Insts : C27_NoOp(i) ]_vars

C27_Witness ==
  \E i \in Insts :
    /\ last = Did("unmount", "unmount", i)
    /\ state[i].mountId = 0 /\ ~state[i].mounted
    /\ state[i].unmountReason = Regular
    /\ released[i] # << >>
    /\ host[i].todo = << "mount" >>

\* C28: the clock is written only by the tick. Every other step leaves time and
\* frame unchanged; a tick adds exactly 1 to frame, which never decreases; the
\* creationTime and creationFrame of an instance never change once it exists.
C28_Step ==
  /\ last'.op # "tick" => time' = time /\ frame' = frame
  /\ last'.op = "tick" => frame' = frame + 1
  /\ frame' >= frame
  /\ \A i \in Insts :
       host[i].comp # "unborn"
         => /\ state'[i].creationTime = state[i].creationTime
            /\ state'[i].creationFrame = state[i].creationFrame
            /\ state'[i].id = state[i].id

C28_ClockWrittenOnlyByTick == [][ C28_Step ]_vars

C28_Witness ==
  \E i \in Insts :
    /\ last.op = "tick" /\ frame = 2 /\ time = 2
    /\ host[i].comp = "live"
    /\ state[i].creationFrame = 1 /\ state[i].creationTime = 1
    /\ state[i].lastUpdateFrame = 1

\* C29: every render adds exactly 1 to renderCount; a render whose generation
\* id equals the stored depsId changes nothing else of the instance: mounted,
\* mountId, depsId, unmountReason, destroyables and the pending set are as
\* before.
C29_Render(i) ==
  (last'.op = "render" /\ last'.inst = i)
    => /\ state'[i].renderCount = state[i].renderCount + 1
       /\ state'[i].depsId = state[i].depsId
            => /\ state'[i] = [ state[i] EXCEPT !.renderCount = @ + 1 ]
               /\ destroyables'[i] = destroyables[i]
               /\ pending' = pending
               /\ released'[i] = released[i]

C29_RenderCount == [][ \A i \in Insts : C29_Render(i) ]_vars

C29_Witness ==
  \E i \in Insts :
    /\ last = Did("render", "same", i)
    /\ state[i].renderCount = 3 /\ state[i].mounted /\ state[i].mountId = 1
    /\ destroyables[i] # << >>

\* The resources of the current generation of instance i that a step releases.
ReleasedNow(i) ==
  { d \in Range(destroyables[i]) :
      d.owner = state[i].depsId /\ d.id \in Range(released'[i]) /\ d.id \notin Range(released[i]) }

\* C30: live resources are never released behind the component's back. While
\* the last lifecycle step of a component is a mount step and its generation
\* id does not change, no step releases a resource of its current generation.
C30_Step(i) ==
  ( /\ host[i].comp = "live" /\ host'[i].comp = "live"
    /\ lastLife[i] \in { "invoked", "skipped" }
    /\ lastLife'[i] = lastLife[i]
    /\ last'.op \notin { "mount", "unmount" }
    /\ state'[i].depsId = state[i].depsId )
  => ReleasedNow(i) = {}

C30_LiveResourcesKept == [][ \A i \in Insts : C30_Step(i) ]_vars

\* C31: after any mount step, one that invokes the callback or one that
\* short-circuits, the instance is not a member of the pending set: every
\* member of the pending set is an instance whose last lifecycle step was a
\* deferred unmount step and which is still mounted.
C31_PendingOnlyDeferred ==
  \A i \in Insts :
    /\ lastLife[i] \in { "invoked", "skipped" } => i \notin pending
    /\ i \in pending => lastLife[i] = "deferred" /\ state[i].mounted

\* C32: a short-circuited mount never leaves the instance without its
\* resources. Whenever a mount step skips the callback, the instance has not
\* been released since the callback of this generation last ran, and what the
\* generator acquired is still in destroyables.
C32_Skip(i) ==
  ( /\ last'.op = "mount" /\ last'.inst = i /\ last'.out = "skipped"
    /\ \E d \in Range(acquired[i]) : d.owner = state[i].depsId )
    => /\ held'[i]
       /\ destroyables'[i] = destroyables[i]
       /\ \A d \in Range(acquired[i]) :
            d.owner = state[i].depsId => d \in Range(destroyables'[i])

C32_SkippedMountKeepsResources == [][ \A i \in Insts : C32_Skip(i) ]_vars

\* C33: with debounce enabled the callback is invoked at most once per
\* generation. It is invoked by the mount step that takes mountId from 0 to 1
\* and by no other; within a generation mountId never goes back.
C33_Invoke(i) ==
  options[i].debounce
    => /\ calls'[i] # calls[i]
            => /\ calls'[i] = calls[i] + 1
               /\ state'[i].mountId = 1
               /\ last'.op = "mount" => state[i].mountId = 0
               /\ last'.op # "mount" => last'.op = "render" /\ state'[i].depsId # state[i].depsId
       /\ state'[i].depsId = state[i].depsId => state'[i].mountId >= state[i].mountId
       /\ \A d \in Range(acquired'[i]) : d.id[2] = 1

C34_Step(i) ==
  /\ pending' = {}
  /\ ~fatal'[i]
  /\ (last'.op = "mount" /\ last'.inst = i)
       => last'.out = "invoked" /\ calls'[i] = calls[i] + 1
  /\ (last'.op = "unmount" /\ last'.inst = i)
       => /\ last'.out = "unmount"
          /\ ~state'[i].mounted
          /\ destroyables'[i] = << >>
          /\ released'[i] = released[i] \o Ids(destroyables[i])

C34_NoDebounce ==
  [][ (\A i \in Insts : ~options[i].debounce) => \A i \in Insts : C34_Step(i) ]_vars

C34_Witness ==
  \E i \in Insts :
    /\ ~options[i].debounce
    /\ last = Did("mount", "invoked", i)
    /\ state[i].mountId = 2 /\ calls[i] = 2 /\ frame = 0
    /\ Len(released[i]) = 3 /\ Len(destroyables[i]) = 3
    /\ pending = {}

\* C35: when an unmount step raises the fatal error the state is unchanged: no
\* release action runs, the instance is not added to the pending set, and
\* mounted, mountId, depsId and destroyables keep their values.
C35_Fatal(i) ==
  (last'.op = "unmount" /\ last'.inst = i /\ last'.out = "fatal")
    => /\ fatal'[i]
       /\ released'[i] = released[i]
       /\ pending' = pending
       /\ state'[i] = state[i]
       /\ destroyables'[i] = destroyables[i]
       /\ acquired'[i] = acquired[i]
       /\ runs' = runs

C35_FatalChangesNothing == [][ \A i \in Insts : C35_Fatal(i) ]_vars

C35_Witness ==
  \E i \in Insts :
    /\ last = Did("unmount", "fatal", i)
    /\ fatal[i]
    /\ state[i].mounted /\ state[i].mountId = 3
    /\ released[i] # << >>
    /\ i \notin pending

\* C36: useFetchAndParse never publishes stale data. setData is never called
\* with the content fetched for a url that is not the hook's current url, and
\* never after the component was unmounted.
C36_Publish(i) ==
  published'[i] # published[i]
    => /\ host[i].comp = "live"
       /\ published'[i][Len(published'[i])] = host[i].props.list[1]

C36_NoStaleData == [][ \A i \in Insts : C36_Publish(i) ]_vars

\* The fields of the instance in a state, as C37 gives them.
C37_State(s, ds, h) ==
  /\ s.mounted => s.mountId >= 1 /\ s.depsId >= 0
  /\ s.mountId >= 0 /\ s.depsId >= -1
  /\ h.comp = "unborn"
       => ~s.mounted /\ s.depsId = -1 /\ s.mountId = 0 /\ ds = << >>
  /\ (h.comp # "unborn" /\ s.mountId = 0)
       => ~s.mounted /\ s.depsId >= 0 /\ h.comp = "live" /\ Mounts(h.todo) = 1

\* C37: mounted implies mountId >= 1 and depsId >= 0; a freshly created
\* instance has mounted = false, depsId = -1, mountId = 0 and no destroyables;
\* mountId is 0 exactly between a generation change (or the creation) and the
\* next mount step: only a generation change sets it to 0, every generation
\* change does, and every mount step leaves it at 1 or more.
C37_Step(i) ==
  /\ C37_State(state[i], destroyables[i], host[i])
  /\ C37_State(state'[i], destroyables'[i], host'[i])
  /\ LET fresh == NewEffectState(nextId, time, frame)
     IN  ~fresh.mounted /\ fresh.depsId = -1 /\ fresh.mountId = 0
  /\ (state'[i].mountId = 0 /\ state[i].mountId # 0)
       => last'.op = "render" /\ state'[i].depsId # state[i].depsId
  /\ state'[i].depsId # state[i].depsId
       => /\ last'.op = "render"
          /\ state'[i].mountId = IF options[i].moment = "memo" THEN 1 ELSE 0
  /\ (last'.op = "mount" /\ last'.inst = i)
       => state'[i].mountId = state[i].mountId + 1
  /\ (state'[i].mountId = 0 /\ state[i].mountId = 0 /\ host[i].comp = "live")
       => last'.op \notin { "mount" }

C37_MountIdAndDepsId == [][ \A i \in Insts : C37_Step(i) ]_vars

C37_Witness ==
  \E i \in Insts :
    /\ host[i].comp = "live" /\ host[i].todo = << "mount" >>
    /\ state[i].mountId = 0 /\ state[i].depsId >= 1 /\ ~state[i].mounted
    /\ last.op = "unmount"
    /\ calls[i] = 1
====
